---- MODULE Spec2Model ----
(***************************************************************************)
(* Model of the personal knowledge vault: the note store with its          *)
(* embedding index (app/services/note_service.py), vector retrieval and    *)
(* answer synthesis (app/services/rag_service.py) and the offline          *)
(* evaluation metrics (app/evaluation/metrics.py).                         *)
(*                                                                         *)
(* Text is a sequence of character codes.  An embedding is a unit vector   *)
(* of dimension 2 (the store's dimension is a configuration value); NULL   *)
(* is the empty tuple.  An optional request field is NONE or <<value>>.    *)
(*                                                                         *)
(* Every service call is one atomic step that leaves its arguments and its *)
(* outcome in `last`; EndRequest hands the response over and makes the     *)
(* service Idle for the next call.                                         *)
(***************************************************************************)
EXTENDS Integers, Sequences, FiniteSets, TLC

VARIABLES
    notes,       \* the notes table: id -> row
    nextId,      \* the next value of the notes.id sequence
    configured,  \* settings.is_openai_configured of the running process
    vectorExt,   \* whether the database has the vector type and its <=> operator
    embedded,    \* ids whose row has been written by a successful embedding call
    deleted,     \* ids of the notes delete_note has removed
    users,       \* the users table, in order of registration
    run,         \* run_evaluation of scripts/evaluate_rag.py: its position and lists
    last,        \* the call being answered and its outcome; Idle between calls
    evalIn,      \* the arguments of a function run on its own (evaluate_retrieval,
                 \* one metric, the excerpt of one row)
    evalOut      \* its outcome

vars == <<notes, nextId, configured, vectorExt, embedded, deleted, users, run, last,
          evalIn, evalOut>>

----------------------------------------------------------------------------
(* Bounds and input sets *)

\* The number of notes created in a run (the id sequence stops there)
MaxNotes == 2

TOP_K_RESULTS == 5

ExcerptLen == 200

\* user.id of the authenticated users
Users == {1, 2}

\* "a"
Titles == {<<97>>}

\* "a", "bc"
Contents == {<<97>>, <<98, 99>>}

TagLists == {<<>>}

\* Titles "a", "b" and tag lists [], ["x"] of the runs that follow single fields
\* through updates
FrameTitles == {<<97>>, <<98>>}

FrameTagLists == {<<>>, << <<120>> >>}

\* "c", "b"
Queries == {<<99>>, <<98>>}

\* The number of users registered in a run
MaxUsers == 2

\* "a", "b", "c" standing for three addresses; "p", "q" for two passwords
Emails == {<<97>>, <<98>>, <<99>>}

Passwords == {<<112>>, <<113>>}

\* skip and limit values a caller of list_notes passes; 100 is the default limit
ListSkips == {0, 1}

ListLimits == {1, 100}

\* top_k values a caller passes; TOP_K_RESULTS stands for top_k=None
TopKs == {1, 2}

\* The longest queries, retrieved_results and ground_truth lists evaluated
MaxQueries == 2

\* The longest content whose excerpt is taken on its own
MaxContentLen == 203

\* The longest retrieved list given to one metric
MaxRetrieved == 3

\* Note ids of the lists and sets given to precision and recall
MetricIds == {1, 2}

MetricKs == {-1, 0, 1, 2, 3}

\* Retrieved lists and relevant sets given to calculate_mrr
MrrLists == {<<>>, <<5, 3, 9>>, <<1, 2>>, <<3, 3>>}

MrrSets == {{}, {3}, {9}, {5, 9}}

EvalIds == {1, 2}

RetrievedLists == {<<>>, <<1>>, <<2, 1>>}

EvalKs == {0, 1, 2}

\* latencies: None, [], [12.0, 30.0]
LatencyLists == {<<>>, << <<>> >>, << <<12, 30>> >>}

NoEval == [queries |-> <<>>, retrieved_results |-> <<>>, ground_truth |-> <<>>,
           k |-> 0, latencies |-> <<>>]

\* The labelled queries of an evaluation dataset: relevant_note_ids as a set
DatasetItems == [query : Queries, relevant_note_ids : {{1}, {1, 2}}]

\* --k of the evaluation script; 5 is its default
RunKs == {1, 5}

\* Latencies in ms that a search call is measured with
Latencies == {12, 30}

\* What requests.get comes back with: a 200 with the note ids of the body, the
\* 503 of a failed query embedding, or an exception of the connection (raised)
SearchResponses ==
    [raised : {FALSE}, status : {200}, note_ids : {<<1>>, <<2, 1>>}]
       \cup [raised : {FALSE}, status : {503}, note_ids : {<<>>}]
       \cup [raised : {TRUE}, status : {0}, note_ids : {<<>>}]

\* run_evaluation has not been started
NoRun == [pc |-> "off"]

NULL == <<>>

Idle == [op |-> "idle"]

NONE == <<>>

Some(v) == <<v>>

SeqsUpTo(S, n) == UNION {[1..m -> S] : m \in 0..n}

Opt(S) == {NONE} \cup {Some(v) : v \in S}

Min(a, b) == IF a <= b THEN a ELSE b

RECURSIVE SumSeq(_)
SumSeq(s) == IF s = <<>> THEN 0 ELSE Head(s) + SumSeq(Tail(s))

----------------------------------------------------------------------------
(* Embedding provider *)

UnitVectors == << <<1, 0>>, <<0, 1>>, <<-1, 0>> >>

\* The embedding model: a fixed function from text to a unit vector.
embed_text(text) == UnitVectors[(SumSeq(text) % Len(UnitVectors)) + 1]

\* f"{title}\n{content}"
combined_text(title, content) == title \o <<10>> \o content

Dot(a, b) == a[1] * b[1] + a[2] * b[2]

\* pgvector's <=> on unit vectors: cosine distance, in 0..2
CosDist(a, b) == 1 - Dot(a, b)

\* OpenAIEmbeddingProvider.embed_text raises AIServiceError when the key is not
\* configured, and when the backend call raises; otherwise it returns the vector.
EmbedOutcomes == IF configured THEN BOOLEAN ELSE {FALSE}

----------------------------------------------------------------------------
(* Note service *)

\* IndexNote with a placeholder vector written when the embedding call fails
IndexNote_PlaceholderOnFailure(row, ok) ==
    IF ok THEN [row EXCEPT !.embedding = embed_text(combined_text(row.title, row.content))]
    ELSE [row EXCEPT !.embedding = <<0, 0>>]

\* The try/except around the embedding call of create_note and update_note:
\* on success the row gets the embedding of its current text, on
\* AIServiceError the row is left as it is.
IndexNote(row, ok) ==
    IF ok THEN [row EXCEPT !.embedding = embed_text(combined_text(row.title, row.content))]
    ELSE row

NewNote(note_data, user) ==
    [title |-> note_data.title, content |-> note_data.content,
     tags |-> note_data.tags, user_id |-> user, embedding |-> NULL]

\* CreateNote on a table that hands out the lowest free id instead of the next
\* value of the sequence
CreateNote_ReuseFreeId(user, note_data, embedOK) ==
    /\ last.op = "idle"
    /\ nextId <= MaxNotes
    /\ embedOK \in EmbedOutcomes
    /\ LET row == IndexNote(NewNote(note_data, user), embedOK)
           free == CHOOSE i \in 1..nextId : i \notin DOMAIN notes
                      /\ \A j \in 1..(i - 1) : j \in DOMAIN notes
       IN /\ notes' = [id \in DOMAIN notes \cup {free} |->
                          IF id = free THEN row ELSE notes[id]]
          /\ embedded' = IF embedOK THEN embedded \cup {free} ELSE embedded
          /\ last' = [op |-> "create", user |-> user, note_id |-> free,
                      note_data |-> note_data, embed_ok |-> embedOK, outcome |-> "ok"]
    /\ nextId' = nextId + 1
    /\ UNCHANGED <<configured, vectorExt, deleted, users, run, evalIn, evalOut>>

CreateNote(user, note_data, embedOK) ==
    /\ last.op = "idle"
    /\ nextId <= MaxNotes
    /\ embedOK \in EmbedOutcomes
    /\ LET row == IndexNote(NewNote(note_data, user), embedOK)
       IN /\ notes' = [id \in DOMAIN notes \cup {nextId} |->
                          IF id = nextId THEN row ELSE notes[id]]
          /\ embedded' = IF embedOK THEN embedded \cup {nextId} ELSE embedded
          /\ last' = [op |-> "create", user |-> user, note_id |-> nextId,
                      note_data |-> note_data, embed_ok |-> embedOK, outcome |-> "ok"]
    /\ nextId' = nextId + 1
    /\ UNCHANGED <<configured, vectorExt, deleted, users, run, evalIn, evalOut>>

\* get_note without the comparison of note.user_id with the requesting user
get_note_NoOwnerCheck(note_id, user) ==
    IF note_id \notin DOMAIN notes THEN "NotFoundError" ELSE "ok"

\* get_note: the error it raises, or "ok"
get_note(note_id, user) ==
    IF note_id \notin DOMAIN notes THEN "NotFoundError"
    ELSE IF notes[note_id].user_id # user THEN "AuthorizationError"
    ELSE "ok"

\* The status the AppException handler answers with, 200 for a returned note
status_code(outcome) ==
    CASE outcome = "NotFoundError" -> 404
      [] outcome = "AuthorizationError" -> 403
      [] outcome = "ValidationError" -> 422
      [] outcome = "ok" -> 200

\* GET /notes/{note_id}
GetNote(user, note_id) ==
    /\ last.op = "idle"
    /\ last' = [op |-> "get", user |-> user, note_id |-> note_id, embed_calls |-> 0,
                outcome |-> get_note(note_id, user),
                status_code |-> status_code(get_note(note_id, user))]
    /\ UNCHANGED <<notes, nextId, configured, vectorExt, deleted, users, run,
                 embedded, evalIn, evalOut>>

\* The ids of the user's notes by created_at descending: the newest first
NewestFirst(user) ==
    LET ids == {id \in DOMAIN notes : notes[id].user_id = user}
    IN CHOOSE s \in [1..Cardinality(ids) -> ids] : \A i, j \in DOMAIN s : i < j => s[i] > s[j]

\* list_notes: OFFSET skip LIMIT limit of the user's notes
list_notes(user, skip, limit) ==
    LET all == NewestFirst(user)
        page == SubSeq(all, skip + 1, Min(skip + limit, Len(all)))
    IN [i \in DOMAIN page |->
          [id |-> page[i], title |-> notes[page[i]].title,
           content |-> notes[page[i]].content, tags |-> notes[page[i]].tags]]

\* GET /notes/
ListNotes(user, skip, limit) ==
    /\ last.op = "idle"
    /\ last' = [op |-> "list", user |-> user, skip |-> skip, limit |-> limit,
                outcome |-> "ok", results |-> list_notes(user, skip, limit)]
    /\ UNCHANGED <<notes, nextId, configured, vectorExt, deleted, users, run,
                 embedded, evalIn, evalOut>>

\* ApplyUpdate that assigns every field, an omitted one as empty
ApplyUpdate_AssignOmitted(row, note_data) ==
    [row EXCEPT
       !.title = IF note_data.title # NONE THEN note_data.title[1] ELSE <<>>,
       !.content = IF note_data.content # NONE THEN note_data.content[1] ELSE <<>>,
       !.tags = IF note_data.tags # NONE THEN note_data.tags[1] ELSE <<>>]

\* The field assignments of update_note
ApplyUpdate(row, note_data) ==
    [row EXCEPT
       !.title = IF note_data.title # NONE THEN note_data.title[1] ELSE @,
       !.content = IF note_data.content # NONE THEN note_data.content[1] ELSE @,
       !.tags = IF note_data.tags # NONE THEN note_data.tags[1] ELSE @]

content_changed(note_data) == note_data.title # NONE \/ note_data.content # NONE

UpdateNote(user, note_id, note_data, embedOK) ==
    LET found == get_note(note_id, user)
        changed == content_changed(note_data)
        ok == changed /\ embedOK
    IN /\ last.op = "idle"
       /\ embedOK \in EmbedOutcomes
       /\ IF found # "ok"
          THEN /\ last' = [op |-> "update", user |-> user, note_id |-> note_id,
                           note_data |-> note_data, embed_calls |-> 0,
                           outcome |-> found]
               /\ UNCHANGED <<notes, embedded>>
          ELSE /\ notes' = [notes EXCEPT ![note_id] =
                              IF changed THEN IndexNote(ApplyUpdate(@, note_data), ok)
                              ELSE ApplyUpdate(@, note_data)]
               /\ embedded' = IF ok THEN embedded \cup {note_id} ELSE embedded
               /\ last' = [op |-> "update", user |-> user, note_id |-> note_id,
                           note_data |-> note_data, content_changed |-> changed,
                           embed_calls |-> IF changed THEN 1 ELSE 0,
                           embed_ok |-> ok, outcome |-> "ok"]
       /\ UNCHANGED <<nextId, configured, vectorExt, deleted, users, run, evalIn, evalOut>>

DeleteNote(user, note_id) ==
    LET found == get_note(note_id, user)
    IN /\ last.op = "idle"
       /\ IF found # "ok"
          THEN UNCHANGED <<notes, embedded, deleted>>
          ELSE /\ notes' = [id \in DOMAIN notes \ {note_id} |-> notes[id]]
               /\ embedded' = embedded \ {note_id}
               /\ deleted' = deleted \cup {note_id}
       /\ last' = [op |-> "delete", user |-> user, note_id |-> note_id,
                   embed_calls |-> 0, outcome |-> found]
       /\ UNCHANGED <<nextId, configured, vectorExt, users, run, evalIn, evalOut>>

\* The process is restarted with another OPENAI_API_KEY; the database stays.
Restart ==
    /\ last.op = "idle"
    /\ configured' = ~configured
    /\ UNCHANGED <<notes, nextId, vectorExt, deleted, users, run,
                 embedded, last, evalIn, evalOut>>

\* The response goes back to the caller and the request's session is closed.
EndRequest ==
    /\ last.op # "idle"
    /\ last' = Idle
    /\ UNCHANGED <<notes, nextId, configured, vectorExt, deleted, users, run,
                 embedded, evalIn, evalOut>>

----------------------------------------------------------------------------
(* Retrieval *)

\* MatchingIds without the user_id condition
MatchingIds_AnyUser(user) ==
    {id \in DOMAIN notes : notes[id].embedding # NULL}

\* WHERE user_id = :user_id AND embedding IS NOT NULL
MatchingIds(user) ==
    {id \in DOMAIN notes : notes[id].user_id = user /\ notes[id].embedding # NULL}

Perms(S) == {s \in [1..Cardinality(S) -> S] : \A i, j \in DOMAIN s : s[i] = s[j] => i = j}

\* OrderedIds without the ORDER BY
OrderedIds_Unordered(ids, qe) == Perms(ids)

\* ORDER BY embedding <=> :query_embedding; rows at equal distance come in
\* any order.
OrderedIds(ids, qe) ==
    {s \in Perms(ids) : \A i, j \in DOMAIN s :
        i < j => CosDist(notes[s[i]].embedding, qe) <= CosDist(notes[s[j]].embedding, qe)}

\* LIMIT :top_k
Limit(s, top_k) == SubSeq(s, 1, Min(top_k, Len(s)))

\* 1 - (embedding <=> :query_embedding) as similarity, read by float(row.similarity)
Similarity(e, qe) == 1 - CosDist(e, qe)

\* Excerpt that also cuts a content of exactly ExcerptLen characters
Excerpt_EllipsisAtLimit(content) ==
    IF Len(content) >= ExcerptLen THEN SubSeq(content, 1, ExcerptLen) \o <<46, 46, 46>>
    ELSE content

Excerpt(content) ==
    IF Len(content) > ExcerptLen THEN SubSeq(content, 1, ExcerptLen) \o <<46, 46, 46>>
    ELSE content

ResultOf(id, qe) ==
    [note_id |-> id, title |-> notes[id].title, content |-> notes[id].content,
     tags |-> notes[id].tags, similarity |-> Similarity(notes[id].embedding, qe),
     excerpt |-> Excerpt(notes[id].content)]

\* The result lists the query can return once the query is embedded
SearchResults(query, user, top_k) ==
    LET qe == embed_text(query)
    IN {[i \in DOMAIN s |-> ResultOf(s[i], qe)] :
           s \in {Limit(o, top_k) : o \in OrderedIds(MatchingIds(user), qe)}}

\* db.execute of the vector query: without the vector extension the database
\* knows no <=> operator and the statement raises.
VectorQueryRuns == vectorExt

\* SemanticSearch that treats an empty row set as an error
SemanticSearch_RaiseOnEmpty(user, query, top_k, embedOK) ==
    /\ last.op = "idle"
    /\ embedOK \in EmbedOutcomes
    /\ IF ~embedOK
       THEN last' = [op |-> "search", user |-> user, query |-> query, top_k |-> top_k,
                     embed_ok |-> FALSE, outcome |-> "AIServiceError",
                     message |-> "Failed to process search query"]
       ELSE \E res \in SearchResults(query, user, top_k) :
               last' = [op |-> "search", user |-> user, query |-> query, top_k |-> top_k,
                        embed_ok |-> TRUE,
                        outcome |-> IF res = <<>> THEN "NotFoundError" ELSE "ok",
                        results |-> res]
    /\ UNCHANGED <<notes, nextId, configured, vectorExt, deleted, users, run,
                 embedded, evalIn, evalOut>>

\* embed_ok records whether embed_text(query) returned.
SemanticSearch(user, query, top_k, embedOK) ==
    /\ last.op = "idle"
    /\ embedOK \in EmbedOutcomes
    /\ IF ~embedOK
       THEN last' = [op |-> "search", user |-> user, query |-> query, top_k |-> top_k,
                     embed_ok |-> FALSE, outcome |-> "AIServiceError",
                     message |-> "Failed to process search query"]
       ELSE IF ~VectorQueryRuns
       THEN last' = [op |-> "search", user |-> user, query |-> query, top_k |-> top_k,
                     embed_ok |-> TRUE, outcome |-> "DatabaseError"]
       ELSE \E res \in SearchResults(query, user, top_k) :
               last' = [op |-> "search", user |-> user, query |-> query, top_k |-> top_k,
                        embed_ok |-> TRUE, outcome |-> "ok", results |-> res]
    /\ UNCHANGED <<notes, nextId, configured, vectorExt, deleted, users, run,
                 embedded, evalIn, evalOut>>

----------------------------------------------------------------------------
(* Answer synthesis *)

RECURSIVE Decimal(_)
\* str(n) for n >= 0
Decimal(n) == IF n < 10 THEN <<48 + n>> ELSE Decimal(n \div 10) \o <<48 + (n % 10)>>

\* f"[{idx}] {result['title']}\n{result['content']}\n"
ContextPart(idx, result) ==
    <<91>> \o Decimal(idx) \o <<93, 32>> \o result.title \o <<10>> \o result.content \o <<10>>

RECURSIVE JoinLines(_)
\* "\n".join(parts)
JoinLines(parts) ==
    IF parts = <<>> THEN <<>>
    ELSE IF Len(parts) = 1 THEN parts[1]
    ELSE parts[1] \o <<10>> \o JoinLines(Tail(parts))

\* BuildContext numbering each block by its note id instead of its rank
BuildContext_ByNoteId(results) ==
    JoinLines([idx \in DOMAIN results |-> ContextPart(results[idx].note_id, results[idx])])

\* enumerate(search_results, 1): the context block of rank idx
BuildContext(results) == JoinLines([idx \in DOMAIN results |-> ContextPart(idx, results[idx])])

BuildCitations(results) ==
    [idx \in DOMAIN results |->
        [note_id |-> results[idx].note_id, title |-> results[idx].title,
         excerpt |-> results[idx].excerpt, similarity |-> results[idx].similarity]]

\* AskAfterRetrieval without the early return on an empty retrieval
AskAfterRetrieval_NoEmptyCheck(user, query, results, is_configured, genOK) ==
    LET base == [op |-> "ask", user |-> user, query |-> query, results |-> results,
                 context |-> BuildContext(results)]
    IN IF ~is_configured
       THEN base @@ [outcome |-> "ok", gen_calls |-> 0,
                     answer |-> "AI service is not configured. Please set OPENAI_API_KEY.",
                     citations |-> BuildCitations(results)]
       ELSE IF genOK
       THEN base @@ [outcome |-> "ok", gen_calls |-> 1, gen_failed |-> FALSE,
                     answer |-> "response.choices[0].message.content",
                     citations |-> BuildCitations(results)]
       ELSE base @@ [outcome |-> "AIServiceError", gen_calls |-> 1, gen_failed |-> TRUE,
                     message |-> "Failed to generate answer"]

\* AskAfterRetrieval answering with a stub when the chat completion fails
AskAfterRetrieval_StubOnFailure(user, query, results, is_configured, genOK) ==
    LET base == [op |-> "ask", user |-> user, query |-> query, results |-> results]
    IN IF results = <<>>
       THEN base @@ [outcome |-> "ok", gen_calls |-> 0, context |-> <<>>,
                     answer |-> "I couldn't find any relevant notes to answer your question.",
                     citations |-> <<>>]
       ELSE IF ~is_configured
       THEN base @@ [outcome |-> "ok", gen_calls |-> 0, context |-> BuildContext(results),
                     answer |-> "AI service is not configured. Please set OPENAI_API_KEY.",
                     citations |-> BuildCitations(results)]
       ELSE base @@ [outcome |-> "ok", gen_calls |-> 1, gen_failed |-> ~genOK,
                     context |-> BuildContext(results),
                     answer |-> IF genOK THEN "response.choices[0].message.content"
                                ELSE "The AI service is unavailable.",
                     citations |-> BuildCitations(results)]

\* ask_vault once semantic_search has returned search_results: the early
\* return on no results, the context and citations, the check of the key, and
\* the one chat completion call inside try/except Exception.
\* AskAfterRetrieval that calls the chat completion a second time when the
\* first call fails
AskAfterRetrieval_RetryOnFailure(user, query, results, is_configured, genOK) ==
    LET base == [op |-> "ask", user |-> user, query |-> query, results |-> results]
    IN IF results = <<>>
       THEN base @@ [outcome |-> "ok", gen_calls |-> 0, context |-> <<>>,
                     answer |-> "I couldn't find any relevant notes to answer your question.",
                     citations |-> <<>>]
       ELSE IF ~is_configured
       THEN base @@ [outcome |-> "ok", gen_calls |-> 0, context |-> BuildContext(results),
                     answer |-> "AI service is not configured. Please set OPENAI_API_KEY.",
                     citations |-> BuildCitations(results)]
       ELSE IF genOK
       THEN base @@ [outcome |-> "ok", gen_calls |-> 1, gen_failed |-> FALSE,
                     context |-> BuildContext(results),
                     answer |-> "response.choices[0].message.content",
                     citations |-> BuildCitations(results)]
       ELSE base @@ [outcome |-> "AIServiceError", gen_calls |-> 2, gen_failed |-> TRUE,
                     context |-> BuildContext(results),
                     message |-> "Failed to generate answer"]

AskAfterRetrieval(user, query, results, is_configured, genOK) ==
    LET base == [op |-> "ask", user |-> user, query |-> query, results |-> results]
    IN IF results = <<>>
       THEN base @@ [outcome |-> "ok", gen_calls |-> 0, context |-> <<>>,
                     answer |-> "I couldn't find any relevant notes to answer your question.",
                     citations |-> <<>>]
       ELSE IF ~is_configured
       THEN base @@ [outcome |-> "ok", gen_calls |-> 0, context |-> BuildContext(results),
                     answer |-> "AI service is not configured. Please set OPENAI_API_KEY.",
                     citations |-> BuildCitations(results)]
       ELSE IF genOK
       THEN base @@ [outcome |-> "ok", gen_calls |-> 1, gen_failed |-> FALSE,
                     context |-> BuildContext(results),
                     answer |-> "response.choices[0].message.content",
                     citations |-> BuildCitations(results)]
       ELSE base @@ [outcome |-> "AIServiceError", gen_calls |-> 1, gen_failed |-> TRUE,
                     context |-> BuildContext(results),
                     message |-> "Failed to generate answer"]

AskVault(user, query, embedOK, genOK) ==
    /\ last.op = "idle"
    /\ embedOK \in EmbedOutcomes
    /\ IF ~embedOK
       THEN last' = [op |-> "ask", user |-> user, query |-> query, embed_ok |-> FALSE,
                     outcome |-> "AIServiceError", gen_calls |-> 0,
                     message |-> "Failed to process search query"]
       ELSE IF ~VectorQueryRuns
       THEN last' = [op |-> "ask", user |-> user, query |-> query, embed_ok |-> TRUE,
                     outcome |-> "DatabaseError", gen_calls |-> 0]
       ELSE \E res \in SearchResults(query, user, TOP_K_RESULTS) :
               last' = AskAfterRetrieval(user, query, res, configured, genOK)
                          @@ [embed_ok |-> TRUE]
    /\ UNCHANGED <<notes, nextId, configured, vectorExt, deleted, users, run,
                 embedded, evalIn, evalOut>>

----------------------------------------------------------------------------
(* Evaluation metrics.  A float is modelled by the exact fraction <<n, d>>   *)
(* in lowest terms that the floating-point value rounds.                     *)

RECURSIVE GCD(_, _)
GCD(a, b) == IF b = 0 THEN a ELSE GCD(b, a % b)

Frac(n, d) == IF n = 0 THEN <<0, 1>> ELSE <<n \div GCD(n, d), d \div GCD(n, d)>>

FAdd(a, b) == Frac(a[1] * b[2] + b[1] * a[2], a[2] * b[2])

RECURSIVE FSum(_)
\* sum(xs)
FSum(xs) == IF xs = <<>> THEN <<0, 1>> ELSE FAdd(Head(xs), FSum(Tail(xs)))

\* x / n for an integer n > 0
FDivInt(x, n) == Frac(x[1], x[2] * n)

\* retrieved[:k] for k > 0
TopK(retrieved, k) == SubSeq(retrieved, 1, Min(k, Len(retrieved)))

\* sum(1 for note_id in top_k if note_id in relevant)
RelevantInTopK(top_k, relevant) == Cardinality({i \in DOMAIN top_k : top_k[i] \in relevant})

\* calculate_precision_at_k that counts over the whole list instead of retrieved[:k]
calculate_precision_at_k_NoSlice(retrieved, relevant, k) ==
    IF k <= 0 \/ retrieved = <<>> THEN <<0, 1>>
    ELSE Frac(RelevantInTopK(retrieved, relevant), k)

calculate_precision_at_k(retrieved, relevant, k) ==
    IF k <= 0 \/ retrieved = <<>> THEN <<0, 1>>
    ELSE Frac(RelevantInTopK(TopK(retrieved, k), relevant), k)

calculate_recall_at_k(retrieved, relevant, k) ==
    IF relevant = {} \/ k <= 0 THEN <<0, 1>>
    ELSE Frac(RelevantInTopK(TopK(retrieved, k), relevant), Cardinality(relevant))

\* zip(xs, ys): the index set of the pairs
ZipDomain(xs, ys) == 1..Min(Len(xs), Len(ys))

\* ReciprocalRank without the break: the rank of the last relevant id
ReciprocalRank_LastHit(retrieved, relevant) ==
    LET hits == {i \in DOMAIN retrieved : retrieved[i] \in relevant}
    IN IF hits = {} THEN <<0, 1>>
       ELSE Frac(1, CHOOSE i \in hits : \A j \in hits : i >= j)

\* 1.0 / rank of the first relevant id, 0.0 when there is none
ReciprocalRank(retrieved, relevant) ==
    LET hits == {i \in DOMAIN retrieved : retrieved[i] \in relevant}
    IN IF hits = {} THEN <<0, 1>>
       ELSE Frac(1, CHOOSE i \in hits : \A j \in hits : i <= j)

calculate_mrr(retrieved_lists, relevant_sets) ==
    IF retrieved_lists = <<>> \/ Len(retrieved_lists) # Len(relevant_sets) THEN <<0, 1>>
    ELSE LET reciprocal_ranks ==
                 [i \in ZipDomain(retrieved_lists, relevant_sets) |->
                     ReciprocalRank(retrieved_lists[i], relevant_sets[i])]
         IN IF reciprocal_ranks = <<>> THEN <<0, 1>>
            ELSE FDivInt(FSum(reciprocal_ranks), Len(reciprocal_ranks))

\* not queries or len(queries) != len(retrieved_results) != len(ground_truth):
\* the chained comparison is (a != b) and (b != c)
LengthCheckFails(queries, retrieved_results, ground_truth) ==
    \/ queries = <<>>
    \/ /\ Len(queries) # Len(retrieved_results)
       /\ Len(retrieved_results) # Len(ground_truth)

evaluate_retrieval(queries, retrieved_results, ground_truth, k, latencies) ==
    IF LengthCheckFails(queries, retrieved_results, ground_truth)
    THEN [status |-> "ValueError"]
    ELSE LET pairs == ZipDomain(retrieved_results, ground_truth)
             precisions == [i \in pairs |->
                 calculate_precision_at_k(retrieved_results[i], ground_truth[i], k)]
             recalls == [i \in pairs |->
                 calculate_recall_at_k(retrieved_results[i], ground_truth[i], k)]
         IN IF pairs = {}
            THEN [status |-> "ZeroDivisionError"]
            ELSE [status |-> "ok",
                  precision_at_k |-> FDivInt(FSum(precisions), Len(precisions)),
                  recall_at_k |-> FDivInt(FSum(recalls), Len(recalls)),
                  mrr |-> calculate_mrr(retrieved_results, ground_truth),
                  latency_ms |-> IF latencies = NONE \/ latencies = Some(<<>>)
                                 THEN <<0, 1>>
                                 ELSE Frac(SumSeq(latencies[1]), Len(latencies[1])),
                  k |-> k,
                  total_queries |-> Len(queries)]

NotRun == [status |-> "not run"]

Evaluate ==
    /\ evalOut = NotRun
    /\ evalOut' = evaluate_retrieval(evalIn.queries, evalIn.retrieved_results,
                                     evalIn.ground_truth, evalIn.k, evalIn.latencies)
    /\ UNCHANGED <<notes, nextId, configured, vectorExt, deleted, users, run,
                 embedded, last, evalIn>>

----------------------------------------------------------------------------
Init ==
    /\ notes = <<>>
    /\ nextId = 1
    /\ configured \in BOOLEAN
    /\ vectorExt = TRUE
    /\ embedded = {}
    /\ deleted = {}
    /\ users = <<>>
    /\ run = NoRun
    /\ last = Idle
    /\ evalIn = NoEval
    /\ evalOut = NotRun

NoteCreates == [title : Titles, content : Contents, tags : TagLists]

NoteUpdates == [title : Opt(Titles), content : Opt(Contents), tags : Opt(TagLists)]

Next ==
    \/ \E u \in Users, d \in NoteCreates, ok \in BOOLEAN : CreateNote(u, d, ok)
    \/ \E u \in Users, id \in 1..MaxNotes, d \in NoteUpdates, ok \in BOOLEAN :
          UpdateNote(u, id, d, ok)
    \/ \E u \in Users, id \in 1..MaxNotes : DeleteNote(u, id)
    \/ \E u \in Users, id \in 1..MaxNotes : GetNote(u, id)
    \/ \E u \in Users, skip \in ListSkips, limit \in ListLimits : ListNotes(u, skip, limit)
    \/ \E u \in Users, q \in Queries, k \in TopKs \cup {TOP_K_RESULTS}, ok \in BOOLEAN :
          SemanticSearch(u, q, k, ok)
    \/ \E u \in Users, q \in Queries, ok, gen \in BOOLEAN : AskVault(u, q, ok, gen)
    \/ Restart
    \/ EndRequest

Spec == Init /\ [][Next]_vars

\* The deployment whose database lacks the vector extension: init_db logs
\* "Vector search features will be disabled" and the service starts all the same.
InitNoVector ==
    /\ notes = <<>>
    /\ nextId = 1
    /\ configured \in BOOLEAN
    /\ vectorExt = FALSE
    /\ embedded = {}
    /\ deleted = {}
    /\ users = <<>>
    /\ run = NoRun
    /\ last = Idle
    /\ evalIn = NoEval
    /\ evalOut = NotRun

SpecNoVector == InitNoVector /\ [][Next]_vars

----------------------------------------------------------------------------
(* scripts/evaluate_rag.py: run_evaluation against a live server.  `calls`   *)
(* is the log of the search calls made so far.                              *)

\* load_evaluation_dataset and authenticate
Authenticate(dataset, k, authOK) ==
    /\ run = NoRun
    /\ run' = IF authOK
              THEN [pc |-> "loop", dataset |-> dataset, k |-> k, queries |-> <<>>,
                    retrieved_results |-> <<>>, ground_truth |-> <<>>,
                    latencies |-> <<>>, calls |-> <<>>]
              ELSE [pc |-> "error", error |-> "Authentication failed",
                    dataset |-> dataset, k |-> k, queries |-> <<>>,
                    retrieved_results |-> <<>>, ground_truth |-> <<>>,
                    latencies |-> <<>>, calls |-> <<>>]
    /\ UNCHANGED <<notes, nextId, configured, vectorExt, deleted, users,
                 embedded, last, evalIn, evalOut>>

\* run_search_query: ([], latency) for a status other than 200
run_search_query(response, latency_ms) ==
    IF response.status # 200 THEN <<<<>>, latency_ms>>
    ELSE <<response.note_ids, latency_ms>>

\* RunSearchQuery that skips an item whose search did not answer 200
RunSearchQuery_SkipFailed(response, latency_ms) ==
    LET item == run.dataset[Len(run.queries) + 1]
        call == [query |-> item.query, k |-> run.k, raised |-> response.raised,
                 status |-> response.status,
                 note_ids |-> response.note_ids, latency_ms |-> latency_ms]
    IN /\ run.pc = "loop"
       /\ Len(run.queries) < Len(run.dataset)
       /\ ~response.raised
       /\ run' = IF response.status # 200
                 THEN [run EXCEPT !.queries = Append(@, item.query),
                                  !.ground_truth = Append(@, item.relevant_note_ids),
                                  !.calls = Append(@, call)]
                 ELSE [run EXCEPT !.queries = Append(@, item.query),
                                  !.ground_truth = Append(@, item.relevant_note_ids),
                                  !.calls = Append(@, call),
                                  !.retrieved_results = Append(@, response.note_ids),
                                  !.latencies = Append(@, latency_ms)]
       /\ UNCHANGED <<notes, nextId, configured, vectorExt, deleted, users,
                    embedded, last, evalIn, evalOut>>

\* RunSearchQuery that gives the run up when a search does not answer 200
RunSearchQuery_AbortOnStatus(response, latency_ms) ==
    LET item == run.dataset[Len(run.queries) + 1]
        call == [query |-> item.query, k |-> run.k, raised |-> response.raised,
                 status |-> response.status,
                 note_ids |-> response.note_ids, latency_ms |-> latency_ms]
    IN /\ run.pc = "loop"
       /\ Len(run.queries) < Len(run.dataset)
       /\ run' = IF response.status # 200
                 THEN [pc |-> "error", error |-> "search failed"]
                         @@ [run EXCEPT !.queries = Append(@, item.query),
                                        !.ground_truth = Append(@, item.relevant_note_ids),
                                        !.calls = Append(@, call)]
                 ELSE [run EXCEPT !.queries = Append(@, item.query),
                                  !.ground_truth = Append(@, item.relevant_note_ids),
                                  !.calls = Append(@, call),
                                  !.retrieved_results = Append(@, response.note_ids),
                                  !.latencies = Append(@, latency_ms)]
       /\ UNCHANGED <<notes, nextId, configured, vectorExt, deleted, users,
                    embedded, last, evalIn, evalOut>>

\* One pass of the loop of run_evaluation: the next dataset item is recorded
\* and searched for.  An exception of requests.get leaves the function.
RunSearchQuery(response, latency_ms) ==
    LET item == run.dataset[Len(run.queries) + 1]
        call == [query |-> item.query, k |-> run.k, raised |-> response.raised,
                 status |-> response.status,
                 note_ids |-> response.note_ids, latency_ms |-> latency_ms]
        answer == run_search_query(response, latency_ms)
    IN /\ run.pc = "loop"
       /\ Len(run.queries) < Len(run.dataset)
       /\ run' = IF response.raised
                 THEN [pc |-> "error", error |-> "ConnectionError"]
                         @@ [run EXCEPT !.queries = Append(@, item.query),
                                        !.ground_truth = Append(@, item.relevant_note_ids),
                                        !.calls = Append(@, call)]
                 ELSE [run EXCEPT !.queries = Append(@, item.query),
                                  !.ground_truth = Append(@, item.relevant_note_ids),
                                  !.calls = Append(@, call),
                                  !.retrieved_results = Append(@, answer[1]),
                                  !.latencies = Append(@, answer[2])]
       /\ UNCHANGED <<notes, nextId, configured, vectorExt, deleted, users,
                    embedded, last, evalIn, evalOut>>

\* The loop is over: evaluate_retrieval gets the four lists
EvaluateRun ==
    /\ run.pc = "loop"
    /\ Len(run.queries) = Len(run.dataset)
    /\ LET result == evaluate_retrieval(run.queries, run.retrieved_results,
                                        run.ground_truth, run.k, Some(run.latencies))
       IN run' = [pc |-> IF result.status = "ok" THEN "done" ELSE "error",
                  error |-> result.status, result |-> result] @@ run
    /\ UNCHANGED <<notes, nextId, configured, vectorExt, deleted, users,
                 embedded, last, evalIn, evalOut>>

InitRun ==
    /\ notes = <<>>
    /\ nextId = 1
    /\ configured = TRUE
    /\ vectorExt = TRUE
    /\ embedded = {}
    /\ deleted = {}
    /\ users = <<>>
    /\ run = NoRun
    /\ last = Idle
    /\ evalIn = NoEval
    /\ evalOut = NotRun

NextRun ==
    \/ \E dataset \in SeqsUpTo(DatasetItems, MaxQueries), k \in RunKs, ok \in BOOLEAN :
          Authenticate(dataset, k, ok)
    \/ \E response \in SearchResponses, ms \in Latencies : RunSearchQuery(response, ms)
    \/ EvaluateRun

SpecRun == InitRun /\ [][NextRun]_vars

----------------------------------------------------------------------------
(* Registration *)

\* db.query(User).filter(User.email == user_data.email).first()
existing_user(email) == \E i \in DOMAIN users : users[i].email = email

\* RegisterUser without the look-up of the email
RegisterUser_NoEmailCheck(user_data) ==
    /\ last.op = "idle"
    /\ Len(users) < MaxUsers
    /\ users' = Append(users, [email |-> user_data.email,
                               hashed_password |-> <<"hashed", user_data.password>>])
    /\ last' = [op |-> "register", email |-> user_data.email, outcome |-> "ok",
                status_code |-> 201, user_id |-> Len(users) + 1]
    /\ UNCHANGED <<notes, nextId, configured, vectorExt, deleted, run,
                 embedded, evalIn, evalOut>>

\* POST /auth/register
RegisterUser(user_data) ==
    /\ last.op = "idle"
    /\ IF existing_user(user_data.email)
       THEN /\ last' = [op |-> "register", email |-> user_data.email,
                        outcome |-> "ValidationError",
                        status_code |-> status_code("ValidationError"),
                        message |-> "Email already registered"]
            /\ UNCHANGED users
       ELSE /\ Len(users) < MaxUsers
            /\ users' = Append(users, [email |-> user_data.email,
                                       hashed_password |-> <<"hashed", user_data.password>>])
            /\ last' = [op |-> "register", email |-> user_data.email, outcome |-> "ok",
                        status_code |-> 201, user_id |-> Len(users) + 1]
    /\ UNCHANGED <<notes, nextId, configured, vectorExt, deleted, run,
                 embedded, evalIn, evalOut>>

UserCreates == [email : Emails, password : Passwords]

InitAuth ==
    /\ notes = <<>>
    /\ nextId = 1
    /\ configured = FALSE
    /\ vectorExt = TRUE
    /\ embedded = {}
    /\ deleted = {}
    /\ users = <<>>
    /\ run = NoRun
    /\ last = Idle
    /\ evalIn = NoEval
    /\ evalOut = NotRun

NextAuth ==
    \/ \E d \in UserCreates : RegisterUser(d)
    \/ EndRequest

SpecAuth == InitAuth /\ [][NextAuth]_vars

----------------------------------------------------------------------------
(* Creates and updates over two titles, two contents and two tag lists, on a *)
(* process without an embedding key                                         *)

FrameCreates == [title : FrameTitles, content : Contents, tags : FrameTagLists]

FrameUpdates ==
    [title : Opt(FrameTitles), content : Opt(Contents), tags : Opt(FrameTagLists)]

InitFrame ==
    /\ notes = <<>>
    /\ nextId = 1
    /\ configured = FALSE
    /\ vectorExt = TRUE
    /\ embedded = {}
    /\ deleted = {}
    /\ users = <<>>
    /\ run = NoRun
    /\ last = Idle
    /\ evalIn = NoEval
    /\ evalOut = NotRun

NextFrame ==
    \/ \E u \in Users, d \in FrameCreates : CreateNote(u, d, FALSE)
    \/ \E u \in Users, id \in 1..MaxNotes, d \in FrameUpdates : UpdateNote(u, id, d, FALSE)
    \/ EndRequest

SpecFrame == InitFrame /\ [][NextFrame]_vars

----------------------------------------------------------------------------
(* The evaluation harness run on its own: every input within the bounds *)

EvalInputs ==
    [queries : SeqsUpTo(Queries, MaxQueries) ,
     retrieved_results : SeqsUpTo(RetrievedLists, MaxQueries),
     ground_truth : SeqsUpTo(SUBSET EvalIds, MaxQueries),
     k : EvalKs,
     latencies : LatencyLists]

InitEval ==
    /\ notes = <<>>
    /\ nextId = 1
    /\ configured = FALSE
    /\ vectorExt = TRUE
    /\ embedded = {}
    /\ deleted = {}
    /\ users = <<>>
    /\ run = NoRun
    /\ last = Idle
    /\ evalIn \in EvalInputs
    /\ evalOut = NotRun

NextEval == Evaluate

SpecEval == InitEval /\ [][NextEval]_vars

----------------------------------------------------------------------------
(* One metric run on its own: every input within the bounds *)

MetricInputs ==
    [fn : {"precision", "recall"}, retrieved : SeqsUpTo(MetricIds, MaxRetrieved),
     relevant : SUBSET MetricIds, k : MetricKs]
    \cup [fn : {"mrr"}, retrieved_lists : SeqsUpTo(MrrLists, MaxQueries),
          relevant_sets : SeqsUpTo(MrrSets, MaxQueries)]

PrecisionAtK ==
    /\ evalOut = NotRun
    /\ evalIn.fn = "precision"
    /\ evalOut' = [status |-> "precision",
                   value |-> calculate_precision_at_k(evalIn.retrieved, evalIn.relevant,
                                                      evalIn.k)]
    /\ UNCHANGED <<notes, nextId, configured, vectorExt, deleted, users, run,
                 embedded, last, evalIn>>

RecallAtK ==
    /\ evalOut = NotRun
    /\ evalIn.fn = "recall"
    /\ evalOut' = [status |-> "recall",
                   value |-> calculate_recall_at_k(evalIn.retrieved, evalIn.relevant,
                                                   evalIn.k)]
    /\ UNCHANGED <<notes, nextId, configured, vectorExt, deleted, users, run,
                 embedded, last, evalIn>>

Mrr ==
    /\ evalOut = NotRun
    /\ evalIn.fn = "mrr"
    /\ evalOut' = [status |-> "mrr",
                   value |-> calculate_mrr(evalIn.retrieved_lists, evalIn.relevant_sets)]
    /\ UNCHANGED <<notes, nextId, configured, vectorExt, deleted, users, run,
                 embedded, last, evalIn>>

InitMetrics ==
    /\ notes = <<>>
    /\ nextId = 1
    /\ configured = FALSE
    /\ vectorExt = TRUE
    /\ embedded = {}
    /\ deleted = {}
    /\ users = <<>>
    /\ run = NoRun
    /\ last = Idle
    /\ evalIn \in MetricInputs
    /\ evalOut = NotRun

NextMetrics == PrecisionAtK \/ RecallAtK \/ Mrr

SpecMetrics == InitMetrics /\ [][NextMetrics]_vars

----------------------------------------------------------------------------
(* The excerpt of one result row, for every content length up to MaxContentLen *)

\* The content of n characters "bcd...zab..."
ContentOfLen(n) == [i \in 1..n |-> 97 + (i % 26)]

ExcerptInputs == {[content |-> ContentOfLen(n)] : n \in 1..MaxContentLen}

\* The loop body of semantic_search for one row
MakeExcerpt ==
    /\ evalOut = NotRun
    /\ evalOut' = [status |-> "excerpt", excerpt |-> Excerpt(evalIn.content)]
    /\ UNCHANGED <<notes, nextId, configured, vectorExt, deleted, users, run,
                 embedded, last, evalIn>>

InitExcerpt ==
    /\ notes = <<>>
    /\ nextId = 1
    /\ configured = TRUE
    /\ vectorExt = TRUE
    /\ embedded = {}
    /\ deleted = {}
    /\ users = <<>>
    /\ run = NoRun
    /\ last = Idle
    /\ evalIn \in ExcerptInputs
    /\ evalOut = NotRun

NextExcerpt == MakeExcerpt

SpecExcerpt == InitExcerpt /\ [][NextExcerpt]_vars

----------------------------------------------------------------------------
(* The shape of the store *)

Vectors == {UnitVectors[i] : i \in DOMAIN UnitVectors}

NoteRows ==
    [title : Titles, content : Contents, tags : TagLists, user_id : Users,
     embedding : {NULL} \cup Vectors]

TypeOK ==
    /\ nextId \in 1..(MaxNotes + 1)
    /\ DOMAIN notes \subseteq 1..(nextId - 1)
    /\ \A id \in DOMAIN notes : notes[id] \in NoteRows
    /\ configured \in BOOLEAN
    /\ embedded \subseteq DOMAIN notes

----------------------------------------------------------------------------
(* Properties *)

SearchReturned == last.op = "search" /\ last.outcome = "ok"

\* ask_vault got a result list from semantic_search
AskRetrieved == last.op = "ask" /\ "results" \in DOMAIN last

\* C1: every result of semantic_search is a stored note owned by the
\* requesting user.
C1_OwnerIsolation ==
    SearchReturned =>
        \A i \in DOMAIN last.results :
            /\ last.results[i].note_id \in DOMAIN notes
            /\ notes[last.results[i].note_id].user_id = last.user

\* A search returned a note while another user also has an embedded note.
C1_Witness ==
    /\ SearchReturned
    /\ last.results # <<>>
    /\ \E id \in DOMAIN notes : notes[id].user_id # last.user /\ notes[id].embedding # NULL

\* C2: with the key not configured and an owner who has an embedded note,
\* ask_vault returns the "not configured" message with a non-empty citation
\* list.
C2_UnconfiguredReturnsCitations ==
    (last.op = "ask" /\ ~configured /\ MatchingIds(last.user) # {}) =>
        /\ last.outcome = "ok"
        /\ last.answer = "AI service is not configured. Please set OPENAI_API_KEY."
        /\ last.citations # <<>>

LengthsAllEqual(in) ==
    /\ Len(in.queries) = Len(in.retrieved_results)
    /\ Len(in.retrieved_results) = Len(in.ground_truth)

\* C3: evaluate_retrieval raises its validation failure whenever the three
\* lengths are not all equal.
C3_MismatchedLengthsRaise ==
    (evalOut # NotRun /\ ~LengthsAllEqual(evalIn)) => evalOut.status = "ValueError"

\* C4: every similarity returned by semantic_search lies in [0, 1].
C4_SimilarityClamped ==
    SearchReturned =>
        \A i \in DOMAIN last.results :
            0 <= last.results[i].similarity /\ last.results[i].similarity <= 1

\* C5: when retrieval returns no result, ask_vault returns the fixed
\* "couldn't find" answer with no citation and makes no chat completion call.
C5_EmptyRetrievalNoGeneration ==
    (AskRetrieved /\ last.results = <<>>) =>
        /\ last.outcome = "ok"
        /\ last.citations = <<>>
        /\ last.answer = "I couldn't find any relevant notes to answer your question."
        /\ last.gen_calls = 0

\* ask_vault ran on a configured backend for a user with nothing to retrieve.
C5_Witness == AskRetrieved /\ last.results = <<>> /\ configured

\* C6: when the chat completion call fails after a non-empty retrieval,
\* ask_vault raises AIServiceError and returns neither answer nor citations.
C6_GenerationFailureRaises ==
    (AskRetrieved /\ last.results # <<>> /\ configured
        /\ "gen_failed" \in DOMAIN last /\ last.gen_failed) =>
        /\ last.outcome = "AIServiceError"
        /\ "answer" \notin DOMAIN last
        /\ "citations" \notin DOMAIN last

\* The chat completion call failed after a non-empty retrieval.
C6_Witness ==
    /\ AskRetrieved
    /\ last.results # <<>>
    /\ last.gen_calls = 1
    /\ last.gen_failed

\* The embedding call of the last create_note or content-changing update_note
\* raised AIServiceError.
IndexingFailed ==
    /\ last.op \in {"create", "update"}
    /\ last.outcome = "ok"
    /\ last.op = "update" => last.content_changed
    /\ ~last.embed_ok

\* The row holds every field the request supplied.
HoldsRequested(row, op, note_data) ==
    IF op = "create"
    THEN /\ row.title = note_data.title
         /\ row.content = note_data.content
         /\ row.tags = note_data.tags
    ELSE /\ note_data.title # NONE => row.title = note_data.title[1]
         /\ note_data.content # NONE => row.content = note_data.content[1]
         /\ note_data.tags # NONE => row.tags = note_data.tags[1]

\* C7: after an embedding failure in create_note or a content-changing
\* update_note the note is committed with the requested fields and its
\* embedding is null.
C7_FailedIndexingLeavesNull ==
    IndexingFailed =>
        /\ last.note_id \in DOMAIN notes
        /\ HoldsRequested(notes[last.note_id], last.op, last.note_data)
        /\ notes[last.note_id].embedding = NULL

\* C8: no result of semantic_search is a note whose embedding is null, nor a
\* note that no embedding call has succeeded for.
C8_NullEmbeddingInvisible ==
    SearchReturned =>
        \A i \in DOMAIN last.results :
            /\ notes[last.results[i].note_id].embedding # NULL
            /\ last.results[i].note_id \in embedded

\* A search by a user who owns a note without embedding returned other notes.
C8_Witness ==
    /\ SearchReturned
    /\ last.results # <<>>
    /\ last.top_k = TOP_K_RESULTS
    /\ \E id \in DOMAIN notes : notes[id].user_id = last.user /\ notes[id].embedding = NULL

\* "[i]"
Marker(i) == <<91>> \o Decimal(i) \o <<93>>

OccursAt(text, pat, p) ==
    p + Len(pat) - 1 <= Len(text) /\ SubSeq(text, p, p + Len(pat) - 1) = pat

\* The first position from start on where pat occurs in text, 0 when none
FindFrom(text, pat, start) ==
    LET ps == {p \in start..Len(text) : OccursAt(text, pat, p)}
    IN IF ps = {} THEN 0 ELSE CHOOSE p \in ps : \A q \in ps : p <= q

RECURSIVE MarkersInOrder(_, _, _, _)
\* The markers [i]..[n] occur in text from start on, one after the other
MarkersInOrder(text, i, n, start) ==
    IF i > n THEN TRUE
    ELSE LET p == FindFrom(text, Marker(i), start)
         IN p # 0 /\ MarkersInOrder(text, i + 1, n, p + Len(Marker(i)))

\* C9: the context assembled from n results holds the markers [1]..[n] in
\* rank order, and the citation list has n entries, citation i naming the
\* note of result i.
C9_ContextCitationAlignment ==
    (AskRetrieved /\ last.results # <<>>) =>
        /\ MarkersInOrder(last.context, 1, Len(last.results), 1)
        /\ "citations" \in DOMAIN last =>
              /\ Len(last.citations) = Len(last.results)
              /\ \A i \in DOMAIN last.results :
                    last.citations[i].note_id = last.results[i].note_id

\* ask_vault returned citations for two results whose first has not id 1.
C9_Witness ==
    /\ AskRetrieved
    /\ Len(last.results) >= 2
    /\ last.results[1].note_id # 1
    /\ "citations" \in DOMAIN last

\* C10: the results of semantic_search are in descending order of similarity.
C10_SortedBySimilarity ==
    SearchReturned =>
        \A i, j \in DOMAIN last.results :
            i < j => last.results[i].similarity >= last.results[j].similarity

\* A search returned two results of different similarity.
C10_Witness ==
    /\ SearchReturned
    /\ Len(last.results) >= 2
    /\ last.results[1].similarity > last.results[2].similarity

\* C11: a search for an owner with no matching note (no note of theirs has an
\* embedding) whose query was embedded returns the empty sequence and raises
\* nothing; ask_vault answers it with the fixed sentence and no citations.
C11_NoMatchesIsEmptyNotError ==
    (last.op \in {"search", "ask"} /\ last.embed_ok /\ MatchingIds(last.user) = {}) =>
        /\ last.outcome = "ok"
        /\ last.results = <<>>
        /\ last.op = "ask" =>
              /\ last.citations = <<>>
              /\ last.answer = "I couldn't find any relevant notes to answer your question."

\* A search by a user whose only notes have no embedding, while another user
\* has an indexed note, came back empty.
C11_Witness ==
    /\ last.op = "search" /\ last.embed_ok /\ last.outcome = "ok" /\ last.results = <<>>
    /\ \E id \in DOMAIN notes : notes[id].user_id = last.user
    /\ \E id \in DOMAIN notes : notes[id].user_id # last.user /\ notes[id].embedding # NULL

\* C12: the ranking strategy follows the backend's capability: on a database
\* without the vector extension a search whose query was embedded does not fail
\* but returns a result list (of the keyword strategy) in the shape of vector mode.
C12_FallbackWhenNoVector ==
    (last.op = "search" /\ ~vectorExt /\ last.embed_ok) =>
        /\ last.outcome = "ok"
        /\ \A i \in DOMAIN last.results :
              DOMAIN last.results[i] =
                 {"note_id", "title", "content", "tags", "similarity", "excerpt"}

Lower(text) == [i \in DOMAIN text |-> IF text[i] \in 65..90 THEN text[i] + 32 ELSE text[i]]

RECURSIVE Tokens(_, _)
\* text.split(): the maximal runs without whitespace, cur being the run so far
Tokens(text, cur) ==
    IF text = <<>> THEN (IF cur = <<>> THEN <<>> ELSE <<cur>>)
    ELSE IF Head(text) \in {9, 10, 13, 32}
    THEN (IF cur = <<>> THEN <<>> ELSE <<cur>>) \o Tokens(Tail(text), <<>>)
    ELSE Tokens(Tail(text), Append(cur, Head(text)))

\* The query's keywords: its lower-cased tokens longer than two characters
Keywords(query) == SelectSeq(Tokens(Lower(query), <<>>), LAMBDA w : Len(w) > 2)

\* <<matches, max(#keywords, 1)>> for one candidate
KeywordScore(query, title, content) ==
    LET kws == Keywords(query)
        text == Lower(title \o <<32>> \o content)
        found == {w \in {kws[i] : i \in DOMAIN kws} :
                    \E p \in 1..Len(text) : OccursAt(text, w, p)}
    IN <<Cardinality(found), IF Len(kws) > 1 THEN Len(kws) ELSE 1>>

\* C13: in keyword-fallback mode (no vector extension) the results of a search
\* come by keyword score descending, the score of a candidate being the number
\* of distinct query keywords found in its lower-cased title and content over
\* max(#keywords, 1).
C13_KeywordScoreOrder ==
    (last.op = "search" /\ ~vectorExt /\ last.embed_ok
        /\ Cardinality({id \in DOMAIN notes : notes[id].user_id = last.user}) > 1) =>
        /\ "results" \in DOMAIN last
        /\ \A i, j \in DOMAIN last.results : i < j =>
              LET si == KeywordScore(last.query, last.results[i].title, last.results[i].content)
                  sj == KeywordScore(last.query, last.results[j].title, last.results[j].content)
              IN si[1] * sj[2] >= sj[1] * si[2]

\* C14: the excerpt of a content of at most 200 characters is the content
\* itself (no ellipsis at exactly 200); the excerpt of a longer content is its
\* first 200 characters followed by "...", 203 characters in all.
C14_ExcerptRule ==
    evalOut.status = "excerpt" =>
        LET c == evalIn.content
            e == evalOut.excerpt
        IN /\ Len(c) <= 200 => e = c
           /\ Len(c) > 200 =>
                 /\ Len(e) = 203
                 /\ \A i \in 1..200 : e[i] = c[i]
                 /\ \A i \in 201..203 : e[i] = 46

\* The excerpt of a content of 201 characters was taken.
C14_Witness ==
    evalOut.status = "excerpt" /\ Len(evalIn.content) = 201 /\ Len(evalOut.excerpt) = 203

\* The distinct ids of retrieved[:k] that are relevant
DistinctRelevant(retrieved, relevant, k) ==
    {retrieved[i] : i \in 1..Min(k, Len(retrieved))} \cap relevant

\* C15: calculate_precision_at_k is |retrieved[:k] \cap relevant| / k, the
\* intersection being one of sets (a repeated id counts once), for k > 0 and a
\* non-empty list; it is 0 when k <= 0 or the list is empty.
C15_PrecisionIsSetIntersection ==
    evalOut.status = "precision" =>
        LET v == evalOut.value
        IN IF evalIn.k <= 0 \/ evalIn.retrieved = <<>> THEN v[1] = 0
           ELSE v[1] * evalIn.k =
                   Cardinality(DistinctRelevant(evalIn.retrieved, evalIn.relevant, evalIn.k))
                      * v[2]

\* C16: the precision of every list (shorter than k, with repeated ids) and
\* every k > 0 lies in [0, 1], and it is 0 for the empty list.
C16_PrecisionInUnitInterval ==
    (evalOut.status = "precision" /\ evalIn.k > 0) =>
        /\ evalOut.value[2] > 0
        /\ 0 <= evalOut.value[1] /\ evalOut.value[1] <= evalOut.value[2]
        /\ evalIn.retrieved = <<>> => evalOut.value[1] = 0

\* The precision of a list shorter than k that names one relevant id twice.
C16_Witness ==
    /\ evalOut.status = "precision" /\ evalIn.k > Len(evalIn.retrieved)
    /\ \E i, j \in DOMAIN evalIn.retrieved :
          i < j /\ evalIn.retrieved[i] = evalIn.retrieved[j]
               /\ evalIn.retrieved[i] \in evalIn.relevant
    /\ evalOut.value[1] > 0

\* C17: calculate_recall_at_k is |retrieved[:k] \cap relevant| / |relevant|, the
\* intersection being one of sets; it is 0 when relevant is empty or k <= 0.
C17_RecallIsSetIntersection ==
    evalOut.status = "recall" =>
        LET v == evalOut.value
        IN IF evalIn.relevant = {} \/ evalIn.k <= 0 THEN v[1] = 0
           ELSE v[1] * Cardinality(evalIn.relevant) =
                   Cardinality(DistinctRelevant(evalIn.retrieved, evalIn.relevant, evalIn.k))
                      * v[2]

\* C18: the recall of every input lies between 0.0 and 1.0, also when a
\* relevant id occurs more than once in the first k retrieved ids.
C18_RecallInUnitInterval ==
    evalOut.status = "recall" =>
        /\ evalOut.value[2] > 0
        /\ 0 <= evalOut.value[1] /\ evalOut.value[1] <= evalOut.value[2]

\* The rank of the first relevant id of the list, 0 when it has none
FirstRelevantRank(retrieved, relevant) ==
    IF \E i \in DOMAIN retrieved : retrieved[i] \in relevant
    THEN CHOOSE i \in DOMAIN retrieved :
            retrieved[i] \in relevant /\ \A j \in 1..(i - 1) : retrieved[j] \notin relevant
    ELSE 0

RECURSIVE SumOfReciprocals(_, _, _)
\* The sum of 1/rank over the queries i.., as an unreduced fraction
SumOfReciprocals(lists, sets, i) ==
    IF i > Len(lists) THEN <<0, 1>>
    ELSE LET r == FirstRelevantRank(lists[i], sets[i])
             rest == SumOfReciprocals(lists, sets, i + 1)
         IN IF r = 0 THEN rest ELSE <<rest[1] * r + rest[2], rest[2] * r>>

\* C19: calculate_mrr is the mean over the paired queries of 1/rank of the
\* first relevant id (0 for a query with none): 1/2 for [[5,3,9]] with [{3}],
\* 0 for [[1,2]] with [{9}], and 0 when the two lists differ in length.
C19_MrrIsMeanReciprocalRank ==
    evalOut.status = "mrr" =>
        LET v == evalOut.value
            lists == evalIn.retrieved_lists
            sets == evalIn.relevant_sets
        IN /\ Len(lists) # Len(sets) => v = <<0, 1>>
           /\ (Len(lists) = Len(sets) /\ lists # <<>>) =>
                 LET sum == SumOfReciprocals(lists, sets, 1)
                 IN v[1] * sum[2] * Len(lists) = sum[1] * v[2]
           /\ (lists = << <<5, 3, 9>> >> /\ sets = << {3} >>) => v = <<1, 2>>
           /\ (lists = << <<1, 2>> >> /\ sets = << {9} >>) => v = <<0, 1>>

\* calculate_mrr ran on [[5,3,9]] with [{3}] and gave 1/2.
C19_Witness ==
    /\ evalOut.status = "mrr"
    /\ evalIn.retrieved_lists = << <<5, 3, 9>> >> /\ evalIn.relevant_sets = << {3} >>
    /\ evalOut.value = <<1, 2>>

\* C20: GET /notes/{note_id} answers 404 both when the note does not exist
\* and when it exists but belongs to another user.
C20_GetNoteHidesForeignNotes ==
    (last.op = "get"
        /\ (last.note_id \notin DOMAIN notes \/ notes[last.note_id].user_id # last.user)) =>
        last.status_code = 404

\* C21: once its owner has deleted a note, the id is gone for good: the row
\* is not in the store again whatever follows, get_note for the id answers
\* not-found (404) to every user, and neither list_notes nor semantic_search
\* returns it.
C21_DeletedStaysDeleted ==
    /\ deleted \cap DOMAIN notes = {}
    /\ (last.op = "get" /\ last.note_id \in deleted) =>
          last.outcome = "NotFoundError" /\ last.status_code = 404
    /\ last.op = "list" => \A i \in DOMAIN last.results : last.results[i].id \notin deleted
    /\ SearchReturned =>
          \A i \in DOMAIN last.results : last.results[i].note_id \notin deleted

\* A deleted note is asked for after a later note has been created.
C21_Witness ==
    /\ last.op = "get" /\ last.note_id \in deleted /\ last.outcome = "NotFoundError"
    /\ \E id \in DOMAIN notes : id > last.note_id

\* C22: a successful update_note leaves each of title, content and tags that
\* the request omits as it was and sets each supplied one to the supplied
\* value; the note keeps its id and its user_id, and no other note changes.
C22_UpdateChangesOnlySupplied ==
    [][(last.op = "idle" /\ last'.op = "update" /\ last'.outcome = "ok") =>
          LET id == last'.note_id
              d == last'.note_data
          IN /\ DOMAIN notes' = DOMAIN notes
             /\ notes'[id].user_id = notes[id].user_id
             /\ notes'[id].title = IF d.title = NONE THEN notes[id].title ELSE d.title[1]
             /\ notes'[id].content =
                   IF d.content = NONE THEN notes[id].content ELSE d.content[1]
             /\ notes'[id].tags = IF d.tags = NONE THEN notes[id].tags ELSE d.tags[1]
             /\ \A o \in DOMAIN notes \ {id} : notes'[o] = notes[o]]_vars

\* An update that supplied only the content left title "b" and tags ["x"].
C22_Witness ==
    /\ last.op = "update" /\ last.outcome = "ok"
    /\ last.note_data.title = NONE /\ last.note_data.tags = NONE
    /\ last.note_data.content # NONE
    /\ notes[last.note_id].title = <<98>>
    /\ notes[last.note_id].tags = << <<120>> >>
    /\ notes[last.note_id].content = last.note_data.content[1]

\* C23: register_user with an email that is already registered fails with the
\* validation error (422, "Email already registered") and leaves the users
\* table as it was; with it, no two users ever share an email.
C23_DuplicateEmailRejected ==
    [][(last.op = "idle" /\ last'.op = "register") =>
          /\ (\E i \in DOMAIN users : users[i].email = last'.email) =>
                /\ last'.outcome = "ValidationError"
                /\ last'.status_code = 422
                /\ last'.message = "Email already registered"
                /\ users' = users
          /\ \A i, j \in DOMAIN users' : users'[i].email = users'[j].email => i = j]_vars

\* A second registration of a registered email was refused.
C23_Witness ==
    /\ last.op = "register" /\ last.outcome = "ValidationError"
    /\ \E i \in DOMAIN users : users[i].email = last.email
    /\ Len(users) > 1

\* run_evaluation has called evaluate_retrieval
RunEvaluated == run.pc \in {"done", "error"} /\ "result" \in DOMAIN run

\* C24: run_evaluation makes one search call per dataset item, one after the
\* other in dataset order, and the four lists it hands to evaluate_retrieval
\* have the length of the dataset, position i of each coming from item i.
C24_OneCallPerItemInOrder ==
    /\ run.pc # "off" =>
          /\ Len(run.calls) <= Len(run.dataset)
          /\ \A i \in DOMAIN run.calls :
                run.calls[i].query = run.dataset[i].query /\ run.calls[i].k = run.k
    /\ RunEvaluated =>
          /\ Len(run.calls) = Len(run.dataset)
          /\ Len(run.queries) = Len(run.dataset)
          /\ Len(run.retrieved_results) = Len(run.dataset)
          /\ Len(run.ground_truth) = Len(run.dataset)
          /\ Len(run.latencies) = Len(run.dataset)
          /\ \A i \in DOMAIN run.dataset :
                /\ run.queries[i] = run.dataset[i].query
                /\ run.ground_truth[i] = run.dataset[i].relevant_note_ids
                /\ run.retrieved_results[i] =
                      IF run.calls[i].status = 200 THEN run.calls[i].note_ids ELSE <<>>
                /\ run.latencies[i] = run.calls[i].latency_ms

\* A run over two items with different queries and labels, the first search
\* refused and the second answered, reached evaluate_retrieval.
C24_Witness ==
    /\ RunEvaluated /\ Len(run.dataset) = 2
    /\ run.dataset[1].query # run.dataset[2].query
    /\ run.dataset[1].relevant_note_ids # run.dataset[2].relevant_note_ids
    /\ run.calls[1].status # 200
    /\ run.calls[2].status = 200 /\ run.calls[2].note_ids # <<>>
    /\ run.calls[1].latency_ms # run.calls[2].latency_ms

\* C29: a search that answers with a status other than 200 does not end the
\* run: the query is recorded with an empty id list and its latency, counts
\* in total_queries, and adds 0 to precision, recall and MRR.
C29_FailedSearchCountsAsEmpty ==
    /\ run.pc # "off" =>
          \A i \in DOMAIN run.calls : 
             (~run.calls[i].raised /\ run.calls[i].status # 200) =>
             /\ (run.pc = "error" /\ "result" \notin DOMAIN run) =>
                   i < Len(run.calls) /\ run.calls[Len(run.calls)].raised
             /\ i \in DOMAIN run.retrieved_results /\ run.retrieved_results[i] = <<>>
             /\ i \in DOMAIN run.latencies /\ run.latencies[i] = run.calls[i].latency_ms
             /\ calculate_precision_at_k(run.retrieved_results[i], run.ground_truth[i], run.k)[1] = 0
             /\ calculate_recall_at_k(run.retrieved_results[i], run.ground_truth[i], run.k)[1] = 0
             /\ ReciprocalRank(run.retrieved_results[i], run.ground_truth[i])[1] = 0
    /\ (run.pc = "done" /\ \E i \in DOMAIN run.calls : run.calls[i].status # 200) =>
          /\ run.result.total_queries = Len(run.dataset)
          /\ (\A i \in DOMAIN run.calls : run.calls[i].status # 200) =>
                /\ run.result.precision_at_k[1] = 0
                /\ run.result.recall_at_k[1] = 0
                /\ run.result.mrr[1] = 0

\* A run whose first search was refused with 503 went on to a second search
\* that found a relevant note, and was evaluated over both queries.
C29_Witness ==
    /\ run.pc = "done" /\ Len(run.dataset) = 2
    /\ run.calls[1].status = 503
    /\ run.calls[2].status = 200
    /\ run.result.total_queries = 2
    /\ run.result.mrr[1] > 0

\* C25: one ask_vault makes at most one chat-completion call; it makes the
\* call only with a non-empty retrieval on a configured backend, and a call
\* that fails is not followed by another.
C25_AtMostOneGeneration ==
    last.op = "ask" =>
        /\ last.gen_calls \in {0, 1}
        /\ last.gen_calls = 1 => (AskRetrieved /\ last.results # <<>> /\ configured)
        /\ ("gen_failed" \in DOMAIN last /\ last.gen_failed) =>
              last.gen_calls = 1 /\ last.outcome = "AIServiceError"
        /\ (~AskRetrieved \/ last.results = <<>>) => last.gen_calls = 0

\* The one chat-completion call of an ask with two retrieved notes failed.
C25_Witness ==
    /\ AskRetrieved /\ Len(last.results) = 2
    /\ "gen_failed" \in DOMAIN last /\ last.gen_failed /\ last.gen_calls = 1

\* C26: in every store state reached by creates and updates, whether their
\* embedding calls succeed or fail, the embedding of each note is null or the
\* embedding of the note's current title and content.
C26_EmbeddingFresh ==
    \A id \in DOMAIN notes :
        \/ notes[id].embedding = NULL
        \/ notes[id].embedding = embed_text(combined_text(notes[id].title, notes[id].content))

\* C27: evaluate_retrieval returns an EvaluationResult or raises its
\* ValueError, and fails in no other way on any input.
C27_OnlyValueError ==
    evalOut.status \in {"not run", "ok", "ValueError"}

\* C28: get_note, update_note and delete_note asked for by a user who does not
\* own the note, or for an id that is not stored, raise an error and leave
\* the store as it was, without an embedding call.
C28_RefusedRequestChangesNothing ==
    [][(/\ last.op = "idle"
        /\ last'.op \in {"get", "update", "delete"}
        /\ \/ last'.note_id \notin DOMAIN notes
           \/ notes[last'.note_id].user_id # last'.user) =>
          /\ last'.outcome \in {"NotFoundError", "AuthorizationError"}
          /\ notes' = notes
          /\ embedded' = embedded
          /\ deleted' = deleted
          /\ last'.embed_calls = 0]_vars

\* An update of another user's indexed note with a new content was refused.
C28_Witness ==
    /\ last.op = "update" /\ last.outcome = "AuthorizationError"
    /\ last.note_data.content # NONE
    /\ notes[last.note_id].content # last.note_data.content[1]
    /\ notes[last.note_id].embedding # NULL
    /\ configured


====
